---- MODULE Spec2Model ----
(***************************************************************************)
(* Model of the mindvideo generation pipeline: the workflow orchestrator   *)
(* (VideoGenerationWorkflow.execute), the bounded fan-outs of the Images   *)
(* and Audio stages, the per-scene segment renders of the Video stage, the *)
(* task record and the persisted project row (Spec); the standalone        *)
(* duration operations of the audio service (SpecDurations); the subtitle  *)
(* cue generators (SpecSubtitles); the websocket ConnectionManager         *)
(* (SpecBroadcast); the zoom expressions of the Ken Burns filter           *)
(* (SpecZoom); a generation request with its background run and the        *)
(* events it pushes (SpecRequest); several runs on one project row         *)
(* (SpecRuns).                                                             *)
(*                                                                         *)
(* Conventions.                                                            *)
(*  - Python's None is the empty tuple <<>>; a path is a non-empty tuple    *)
(*    <<kind, order>>, an error message a one-element tuple <<msg>>.        *)
(*  - Durations are in tenths of a second.                                 *)
(*  - Progress is a fixed-point number in units of 1/(10*Unit) where Unit  *)
(*    is divisible by every scene count of the model, so that              *)
(*    (index + 1) / len(scenes) is exact.                                  *)
(*  - task_repo.update is taken to succeed: the in-memory task object and  *)
(*    its row are written in one step.  The other awaited calls inside the *)
(*    try block of execute may raise.                                      *)
(***************************************************************************)
EXTENDS Integers, Sequences, FiniteSets, TLC

\* ---------------------------------------------------------------- bounds
MaxScenes == 2
MaxConcurrent == 2
MaxSubscribers == 2
MaxEvents == 1

\* ------------------------------------------------------- small input sets
PlannedDurations == {50}
MeasuredDurations == {0, 55, 60}
SynthesizedDurations == {0, 40, 45, 54, 55, 60}

\* ---------------------------------------------------------------- helpers
None == <<>>

RECURSIVE Factorial(_)
Factorial(n) == IF n <= 1 THEN 1 ELSE n * Factorial(n - 1)

Unit == Factorial(MaxScenes)

Abs(x) == IF x < 0 THEN 0 - x ELSE x

RECURSIVE SumDurations(_)
SumDurations(scenes) ==
    IF scenes = <<>> THEN 0
    ELSE Head(scenes).duration + SumDurations(Tail(scenes))

RECURSIVE SelectSome(_)
SelectSome(seq) ==
    IF seq = <<>> THEN <<>>
    ELSE IF Head(seq) = None THEN SelectSome(Tail(seq))
         ELSE <<Head(seq)>> \o SelectSome(Tail(seq))

\* ------------------------------------------------------------- data model
\* models.py TaskStage, in declaration order
TaskStage == <<"analyzing", "images", "audio", "video", "composing", "done">>

StageRank(stage) == CHOOSE k \in 1..Len(TaskStage) : TaskStage[k] = stage

\* models.py StoryboardScene as script analysis creates it (order = i)
StoryboardScene(i, planned) ==
    [id |-> i + 1, order |-> i, narration |-> <<"a">>, duration |-> planned,
     image_path |-> None, video_path |-> None, audio_path |-> None]

\* models.py Storyboard.calculate_duration
calculate_duration(storyboard) ==
    [storyboard EXCEPT !.total_duration = SumDurations(storyboard.scenes)]

\* script_analysis.py analyze_script: the storyboard built from n scene dicts
NewStoryboard(n, planned) ==
    calculate_duration([id |-> 1,
                        scenes |-> [i \in 1..n |-> StoryboardScene(i - 1, planned)],
                        total_duration |-> 0])

\* models.py GenerationTask as execute constructs it
GenerationTask ==
    [stage |-> "analyzing", progress |-> 0, current_scene |-> None,
     total_scenes |-> 0, error |-> None]

\* 0.1 + progress * 0.3 and its siblings: start and span in tenths,
\* frac = progress in units of 1/Unit
StageProgress(start, span, frac) == start * Unit + span * frac

\* (index + 1) / len(storyboard.scenes), index 0-based
JobFraction(index, total) == ((index + 1) * Unit) \div total

VARIABLES
    pc,             \* position of execute
    args,           \* arguments of execute and the services' settings
    project_repo,   \* the persisted project row
    task_repo,      \* the tasks table: sequence of task rows
    task_id,        \* id of the task execute created (0: none yet)
    project,        \* execute's in-memory Project (without its storyboard)
    storyboard,     \* execute's in-memory Storyboard (None: not loaded)
    job,            \* status of each per-scene job of the current stage
    ret,            \* value each settled job returned
    settled,        \* indexes (1-based) of the settled jobs, in settle order
    notified,       \* progress notifications of the current stage, in order
    input_scenes,   \* the scene list the current stage was called with
    video_segments, \* the segment list compose_final_video concatenates
    raised,         \* exception in flight or propagated out of execute
    output_path,    \* value execute returned
    measured,       \* what synthesize returned to generate_scene_audios, per scene
    cue_track,      \* the subtitle track generated for the storyboard
    active_connections, \* ConnectionManager: project id -> list of websockets
    sockets,        \* state of every websocket: new, open, broken or closed
    sending,        \* the send_progress calls in flight, by event
    received,       \* the events each websocket's peer received, in order
    write_failed,   \* the (event, websocket) pairs whose send_json raised
    zoompan,        \* the zoompan filter at work: effect, frame, zoom (None: no render)
    request,        \* the body of the generation request (None: no request yet)
    request_task_id, \* id of the task generate_video created and returned (0: none)
    pushed,         \* the events handed to manager.send_progress, in order
    tts_client,     \* the TTS client the Audio stage synthesised with (None: not yet)
    runs            \* the runs of execute on one project: position and in-memory state

subtitle_vars == <<cue_track>>

manager_vars == <<active_connections, sockets, sending, received, write_failed>>

exec_vars == <<pc, args, project_repo, task_repo, task_id, project, storyboard,
               job, ret, settled, notified, input_scenes, video_segments, raised,
               output_path, measured>>

zoom_vars == <<zoompan>>

request_vars == <<request, request_task_id, pushed, tts_client>>

runs_vars == <<runs>>

vars == <<exec_vars, subtitle_vars, manager_vars, zoom_vars, request_vars, runs_vars>>

Task == task_repo[task_id]

NumScenes == Len(storyboard[1].scenes)

Scenes == storyboard[1].scenes

\* ------------------------------------------------------------ persistence
\* models.py StoryboardScene.duration: Field(ge=1.0, le=10.0)
MinSceneDuration == 10
MaxSceneDuration == 100

\* project_repo.py _row_to_project: Storyboard(**json.loads(...)) validates
\* every scene; a ValidationError leaves the project without storyboard
row_to_storyboard(data) ==
    IF data = None THEN None
    ELSE IF \A i \in 1..Len(data[1].scenes) :
               /\ data[1].scenes[i].duration >= MinSceneDuration
               /\ data[1].scenes[i].duration <= MaxSceneDuration
         THEN data
         ELSE None

\* project_repo.py _row_to_project: the fields execute keeps in `project`
row_to_project(row) ==
    [status |-> row.status, video_output_path |-> row.video_output_path,
     error_message |-> row.error_message]

\* project_repo.py update: the row written from a Project object; the
\* storyboard column holds the JSON of the storyboard, or NULL without one
project_row(proj, sb) ==
    [status |-> proj.status, video_output_path |-> proj.video_output_path,
     error_message |-> proj.error_message, storyboard_data |-> sb]

\* project_repo.py update_status: get_by_id, set status and message, update
update_status(row, status, error_message) ==
    project_row([row_to_project(row) EXCEPT !.status = status,
                                            !.error_message = error_message],
                row_to_storyboard(row.storyboard_data))

\* project_repo.py update_storyboard
update_storyboard(row, sb) ==
    project_row([row_to_project(row) EXCEPT !.status = "ready"], sb)

\* project_repo.py set_video_output
set_video_output(row, video_path) ==
    project_row([row_to_project(row) EXCEPT !.video_output_path = video_path,
                                            !.status = "completed"],
                row_to_storyboard(row.storyboard_data))

\* variant: _update_task_progress that drops its error argument
update_task_progress_NoError(task, stage, progress, current_scene, error) ==
    [task EXCEPT !.stage = stage,
                 !.progress = progress,
                 !.current_scene = IF current_scene # None THEN current_scene ELSE @]

\* video_generation.py _update_task_progress
update_task_progress(task, stage, progress, current_scene, error) ==
    [task EXCEPT !.stage = stage,
                 !.progress = progress,
                 !.current_scene = IF current_scene # None THEN current_scene ELSE @,
                 !.error = IF error # None THEN error ELSE @]

\* ----------------------------------------------------------------- fan-out
InFlight == {i \in DOMAIN job : job[i] \in {"call", "callback"}}

Settled(i) == job[i] \in {"ok", "failed", "skipped"}

AllSettled == \A i \in DOMAIN job : Settled(i)

\* variant: a semaphore that admits one job too many
SemaphoreFree_OffByOne(holders, max_concurrent) == Cardinality(holders) <= max_concurrent

\* asyncio.Semaphore(self.max_concurrent): `async with semaphore` enters only
\* while fewer than max_concurrent jobs hold it
SemaphoreFree(holders, max_concurrent) == Cardinality(holders) < max_concurrent

\* variant: results collected in the order the jobs settled
Gather_AsCompleted(results, order) == [k \in 1..Len(order) |-> results[order[k]]]

\* asyncio.gather(*tasks): results in the order of the tasks, whatever the
\* order in which they settled
Gather(results, order) == results

\* visual_generation.py generate_one: path of the image of a scene
ImagePath(scene) == <<"images", scene.order>>

\* audio_synthesis.py generate_one: path of the audio of a scene
AudioPath(scene) == <<"audio", scene.order>>

\* video_composition.py generate_segment: path of the segment of a scene
SegmentPath(scene) ==
    IF scene.audio_path # None THEN <<"segment_with_audio", scene.order>>
    ELSE <<"segment", scene.order>>

\* variant: a tolerance band that excludes its boundary
ReconcileDuration_Inclusive(scene, duration) ==
    IF duration > 0 /\ 10 * Abs(duration - scene.duration) >= scene.duration
    THEN duration
    ELSE scene.duration

\* audio_synthesis.py generate_one: duration reconciliation
ReconcileDuration(scene, duration) ==
    IF duration > 0 /\ 10 * Abs(duration - scene.duration) > scene.duration
    THEN duration
    ELSE scene.duration

\* the (current, total) pair and the fraction a job's notification carries
Notification(index, total) ==
    [current |-> index + 1, total |-> total, progress |-> JobFraction(index, total)]

\* video_generation.py image_progress_callback / audio_progress_callback /
\* video_progress_callback: the task row after a notification
StageStart(stage) == CASE stage = "images" -> 1 [] stage = "audio" -> 4 [] stage = "video" -> 6

StageSpan(stage) == CASE stage = "images" -> 3 [] stage = "audio" -> 2 [] stage = "video" -> 3

stage_progress_callback(task, stage, note) ==
    update_task_progress(task, stage,
                         StageProgress(StageStart(stage), StageSpan(stage), note.progress),
                         <<note.current>>, None)

\* video_generation.py execute: progress written when a stage begins
BeginProgress(stage) ==
    CASE stage = "images" -> 0
      [] stage = "audio" -> StageProgress(4, 0, 0)
      [] stage = "video" -> StageProgress(6, 0, 0)

\* video_generation.py execute, except branch: the stage written
FailureStage == "composing"

\* video_generation.py execute, except branch: the progress written

\* variant: a failure handler that resets the progress
FailureProgress_Reset(task) == 0

FailureProgress(task) == task.progress

\* ------------------------------------------------------------- subtitles
\* Strings are sequences of characters; "," stands for the full-width
\* punctuation marks the renderer splits at.  Times are in tenths of a
\* second, like the scene durations.
MaxSubtitleScenes == 3

\* subtitle_renderer.py _clean_text_for_subtitle: len(text) > 30
SubtitleMaxChars == 30

SubtitleDurations == {15, 50, 100}

LongNarration == [i \in 1..(SubtitleMaxChars + 1) |-> IF i \in {3, 6} THEN "," ELSE "a"]

Narrations == {<<>>, <<" ">>, <<"a", "*">>, LongNarration}

\* re.split(r'[...]', text): the pieces between the punctuation marks
RECURSIVE Split(_, _)
Split(text, piece) ==
    IF text = <<>> THEN <<piece>>
    ELSE IF Head(text) = "," THEN <<piece>> \o Split(Tail(text), <<>>)
         ELSE Split(Tail(text), Append(piece, Head(text)))

\* str.strip()
RECURSIVE Strip(_)
Strip(text) ==
    IF text = <<>> THEN text
    ELSE IF Head(text) = " " THEN Strip(Tail(text))
    ELSE IF text[Len(text)] = " " THEN Strip(SubSeq(text, 1, Len(text) - 1))
    ELSE text

\* subtitle_renderer.py _clean_text_for_subtitle
clean_text_for_subtitle(text) ==
    LET parts == Split(text, <<>>)
        short == IF Len(text) > SubtitleMaxChars /\ Len(parts) > 1
                 THEN parts[1] \o <<",">> \o parts[2]
                 ELSE text
    IN  Strip(SelectSeq(short, LAMBDA c : c \notin {"*", "[", "]"}))

\* subtitle_renderer.py _seconds_to_srt_time: HH:MM:SS,mmm
seconds_to_srt_time(seconds) ==
    [hours |-> seconds \div 36000,
     minutes |-> (seconds % 36000) \div 600,
     secs |-> (seconds % 600) \div 10,
     millis |-> (seconds % 10) * 100]

\* subtitle_renderer.py _seconds_to_ass_time: H:MM:SS.CC
seconds_to_ass_time(seconds) ==
    [hours |-> seconds \div 36000,
     minutes |-> (seconds % 36000) \div 600,
     secs |-> (seconds % 600) \div 10,
     centis |-> (seconds % 10) * 10]

\* variant: a renderer that emits a cue for every scene
HasNarration_Always(scene) == TRUE

\* generate_srt_content / generate_ass_content: `if not scene.narration:
\* continue`
HasNarration(scene) == scene.narration # <<>>

\* generate_srt_content, the loop from scene i on with the clock at
\* current_time: the clock advances only past a scene that got a cue
RECURSIVE srt_cues(_, _, _)
srt_cues(scenes, i, current_time) ==
    IF i > Len(scenes) THEN <<>>
    ELSE IF ~HasNarration(scenes[i]) THEN srt_cues(scenes, i + 1, current_time)
    ELSE LET end_time == current_time + scenes[i].duration IN
         <<[index |-> i,
            start |-> seconds_to_srt_time(current_time),
            end |-> seconds_to_srt_time(end_time),
            text |-> clean_text_for_subtitle(scenes[i].narration)]>>
         \o srt_cues(scenes, i + 1, end_time)

\* generate_ass_content, the loop from scene i on
RECURSIVE ass_cues(_, _, _)
ass_cues(scenes, i, current_time) ==
    IF i > Len(scenes) THEN <<>>
    ELSE IF ~HasNarration(scenes[i]) THEN ass_cues(scenes, i + 1, current_time)
    ELSE LET end_time == current_time + scenes[i].duration IN
         <<[start |-> seconds_to_ass_time(current_time),
            end |-> seconds_to_ass_time(end_time),
            text |-> clean_text_for_subtitle(scenes[i].narration)]>>
         \o ass_cues(scenes, i + 1, end_time)

\* subtitle_renderer.py generate_srt_content
generate_srt_content(sb) == [format |-> "srt", cues |-> srt_cues(sb.scenes, 1, 0)]

\* subtitle_renderer.py generate_ass_content
generate_ass_content(sb) == [format |-> "ass", cues |-> ass_cues(sb.scenes, 1, 0)]

\* ------------------------------------------- components at rest
\* main.py: the project ids of the websocket URLs and of the runs
ProjectIds == {"p1", "p2"}

\* the websockets that may ever connect, and the events that may be sent
WebSockets == 1..MaxSubscribers

Events == 1..MaxEvents

\* main.py ConnectionManager.__init__: no connection, nothing sent yet.  A
\* project id that is not a key of active_connections maps to <<>>: the
\* code never stores an empty list under a key.
ManagerInit ==
    /\ active_connections = [p \in ProjectIds |-> <<>>]
    /\ sockets = [w \in WebSockets |-> [state |-> "new", project_id |-> None,
                                        missed |-> {}]]
    /\ sending = [e \in Events |-> None]
    /\ received = [w \in WebSockets |-> <<>>]
    /\ write_failed = {}

\* no subtitle track has been generated
SubtitlesInit == cue_track = None

\* no render is at work
ZoomInit == zoompan = None

\* no generation request has been made
RequestInit ==
    /\ request = None
    /\ request_task_id = 0
    /\ pushed = <<>>
    /\ tts_client = None

\* no run of the multi-run view has started
RunsInit == runs = <<>>

\* the components the other specifications are about, at rest
OthersInit == ZoomInit /\ RequestInit /\ RunsInit

\* no run of execute is in progress
NoRun ==
    /\ pc = "idle"
    /\ args = [enable_subtitles |-> TRUE, progress_callback |-> FALSE,
               max_concurrent_images |-> 1, max_concurrent_audio |-> 1]
    /\ task_repo = <<>>
    /\ task_id = 0
    /\ project = None
    /\ job = <<>>
    /\ ret = <<>>
    /\ settled = <<>>
    /\ notified = <<>>
    /\ input_scenes = <<>>
    /\ video_segments = <<>>
    /\ raised = None
    /\ output_path = None
    /\ measured = <<>>

\* ------------------------------------------------------------------- Init
Init ==
    /\ pc = "idle"
    /\ args \in [enable_subtitles : BOOLEAN,
                 progress_callback : BOOLEAN,
                 max_concurrent_images : 1..MaxConcurrent,
                 max_concurrent_audio : 1..MaxConcurrent]
    /\ \E has \in BOOLEAN, n \in 0..MaxScenes, planned \in PlannedDurations :
          project_repo =
              [status |-> IF has THEN "generating" ELSE "draft",
               video_output_path |-> None,
               error_message |-> None,
               storyboard_data |-> IF has THEN <<NewStoryboard(n, planned)>> ELSE None]
    /\ task_repo = <<>>
    /\ task_id = 0
    /\ project = None
    /\ storyboard = None
    /\ job = <<>>
    /\ ret = <<>>
    /\ settled = <<>>
    /\ notified = <<>>
    /\ input_scenes = <<>>
    /\ video_segments = <<>>
    /\ raised = None
    /\ output_path = None
    /\ measured = <<>>
    /\ SubtitlesInit
    /\ ManagerInit
    /\ OthersInit

\* ------------------------------------------------------- action fragments
WriteTask(t) == task_repo' = [task_repo EXCEPT ![task_id] = t]

Raise(msg) ==
    /\ raised' = <<msg>>
    /\ pc' = "except"

\* the jobs of a fan-out as asyncio.gather schedules them
Launch(n) ==
    /\ job' = [i \in 1..n |-> "pending"]
    /\ ret' = [i \in 1..n |-> None]
    /\ settled' = <<>>
    /\ notified' = <<>>
    /\ input_scenes' = Scenes

\* job i returns value v after outcome st
Settle(i, st, v) ==
    /\ job' = [job EXCEPT ![i] = st]
    /\ ret' = [ret EXCEPT ![i] = v]
    /\ settled' = Append(settled, i)

\* the stage callback invoked by job i: the task row is written, the
\* notification recorded
Notify(stage, i) ==
    /\ WriteTask(stage_progress_callback(Task, stage, Notification(i - 1, NumScenes)))
    /\ notified' = Append(notified, Notification(i - 1, NumScenes))

\* -------------------------------------------------------- execute: set-up
\* video_generation.py execute, lines 52-82: load the project, create the
\* task, take the existing storyboard or go and analyse the script
Execute ==
    /\ pc = "idle"
    /\ project' = row_to_project(project_repo)
    /\ storyboard' = row_to_storyboard(project_repo.storyboard_data)
    /\ task_id' = Len(task_repo) + 1
    /\ IF storyboard' = None
       THEN /\ task_repo' = Append(task_repo,
                   update_task_progress(GenerationTask, "analyzing", 0, None, None))
            /\ pc' = "analyzing"
       ELSE /\ task_repo' = Append(task_repo,
                   [GenerationTask EXCEPT !.total_scenes = Len(storyboard'[1].scenes)])
            /\ pc' = "check"
    /\ UNCHANGED <<args, project_repo, job, ret, settled, notified, input_scenes,
                   video_segments, raised, output_path, measured, subtitle_vars, manager_vars, zoom_vars,
                   request_vars, runs_vars>>

\* script_analysis.py analyze_script returns a storyboard of n >= 1 scenes;
\* execute persists it with update_storyboard and records total_scenes
AnalyzeOk ==
    /\ pc = "analyzing"
    /\ \E n \in 1..MaxScenes, planned \in PlannedDurations :
          LET sb == NewStoryboard(n, planned) IN
          /\ storyboard' = <<sb>>
          /\ project_repo' = update_storyboard(project_repo, <<sb>>)
          /\ project' = row_to_project(project_repo')
          /\ WriteTask([Task EXCEPT !.total_scenes = n])
    /\ pc' = "check"
    /\ UNCHANGED <<args, task_id, job, ret, settled, notified, input_scenes, video_segments,
                   raised, output_path, measured, subtitle_vars, manager_vars, zoom_vars,
                   request_vars, runs_vars>>

\* analyze_script raises: the client failed, or it returned no scene
AnalyzeFail ==
    /\ pc = "analyzing"
    /\ \E msg \in {"analysis failed", "No scenes returned from script analysis"} :
          Raise(msg)
    /\ UNCHANGED <<args, project_repo, task_repo, task_id, project, storyboard, job, ret,
                   settled, notified, input_scenes, video_segments, output_path, measured,
                   subtitle_vars, manager_vars, zoom_vars,
                   request_vars, runs_vars>>

\* analyze_script succeeded and project_repo.update_storyboard raises
UpdateStoryboardFail ==
    /\ pc = "analyzing"
    /\ \E n \in 1..MaxScenes, planned \in PlannedDurations :
          storyboard' = <<NewStoryboard(n, planned)>>
    /\ Raise("database error")
    /\ UNCHANGED <<args, project_repo, task_repo, task_id, project, job, ret, settled,
                   notified, input_scenes, video_segments, output_path, measured,
                   subtitle_vars, manager_vars, zoom_vars,
                   request_vars, runs_vars>>

\* video_generation.py execute, lines 84-85
NoScenes ==
    /\ pc = "check"
    /\ NumScenes = 0
    /\ Raise("No scenes in storyboard")
    /\ UNCHANGED <<args, project_repo, task_repo, task_id, project, storyboard, job, ret,
                   settled, notified, input_scenes, video_segments, output_path, measured,
                   subtitle_vars, manager_vars, zoom_vars,
                   request_vars, runs_vars>>

\* variant: an Images stage that begins without the scene check
BeginImages_NoCheck ==
    /\ pc = "check"
    /\ WriteTask(update_task_progress(Task, "images", BeginProgress("images"), None, None))
    /\ Launch(NumScenes)
    /\ pc' = "images"
    /\ UNCHANGED <<args, project_repo, task_id, project, storyboard, video_segments, raised,
                   output_path, measured, subtitle_vars, manager_vars, zoom_vars,
                   request_vars, runs_vars>>

\* video_generation.py execute, lines 87-106: the Images stage begins
BeginImages ==
    /\ pc = "check"
    /\ NumScenes > 0
    /\ WriteTask(update_task_progress(Task, "images", BeginProgress("images"), None, None))
    /\ Launch(NumScenes)
    /\ pc' = "images"
    /\ UNCHANGED <<args, project_repo, task_id, project, storyboard, video_segments, raised,
                   output_path, measured, subtitle_vars, manager_vars, zoom_vars,
                   request_vars, runs_vars>>

\* ------------------------------------------------- Images and Audio stages
MaxConcurrentOf(stage) ==
    IF stage = "images" THEN args.max_concurrent_images
    ELSE args.max_concurrent_audio

\* generate_one, `async with semaphore`: job i enters its critical section.
\* asyncio wakes the waiters of a semaphore in the order they arrived.
JobStart(i) ==
    /\ pc \in {"images", "audio"}
    /\ job[i] = "pending"
    /\ \A j \in 1..(i - 1) : job[j] # "pending"
    /\ SemaphoreFree(InFlight, MaxConcurrentOf(pc))
    /\ job' = [job EXCEPT ![i] = "call"]
    /\ UNCHANGED <<pc, args, project_repo, task_repo, task_id, project, storyboard, ret,
                   settled, notified, input_scenes, video_segments, raised, output_path,
                   measured, subtitle_vars, manager_vars, zoom_vars,
                   request_vars, runs_vars>>

\* the job's scene after the external call returned, before the callback
AfterCall(i, scene) ==
    /\ storyboard' = [storyboard EXCEPT ![1].scenes[i] = scene]
    /\ Notify(pc, i)
    /\ IF args.progress_callback
       THEN /\ job' = [job EXCEPT ![i] = "callback"]
            /\ UNCHANGED <<ret, settled>>
       ELSE Settle(i, "ok", scene)

\* visual_generation.py generate_one, lines 56-73: txt2img returned
ImageCallOk(i) ==
    /\ pc = "images"
    /\ job[i] = "call"
    /\ AfterCall(i, [Scenes[i] EXCEPT !.image_path = ImagePath(Scenes[i])])
    /\ UNCHANGED <<pc, args, project_repo, task_id, project, input_scenes, video_segments,
                   raised, output_path, measured, subtitle_vars, manager_vars, zoom_vars,
                   request_vars, runs_vars>>

\* audio_synthesis.py generate_one, lines 68-97: synthesize returned
AudioCallOk(i) ==
    /\ pc = "audio"
    /\ job[i] = "call"
    /\ \E duration \in MeasuredDurations :
          AfterCall(i, [Scenes[i] EXCEPT !.audio_path = AudioPath(Scenes[i]),
                                         !.duration = ReconcileDuration(Scenes[i], duration)])
    /\ UNCHANGED <<pc, args, project_repo, task_id, project, input_scenes, video_segments,
                   raised, output_path, measured, subtitle_vars, manager_vars, zoom_vars,
                   request_vars, runs_vars>>

\* generate_one, except branch: the external call raised
JobCallFail(i) ==
    /\ pc \in {"images", "audio"}
    /\ job[i] = "call"
    /\ Settle(i, "failed", Scenes[i])
    /\ UNCHANGED <<pc, args, project_repo, task_repo, task_id, project, storyboard, notified,
                   input_scenes, video_segments, raised, output_path, measured,
                   subtitle_vars, manager_vars, zoom_vars,
                   request_vars, runs_vars>>

\* the caller's progress_callback returned: the job returns its scene
\* (Images, Audio) or its segment path (Video)
JobCallbackOk(i) ==
    /\ pc \in {"images", "audio", "video"}
    /\ job[i] = "callback"
    /\ Settle(i, "ok", IF pc = "video" THEN Scenes[i].video_path ELSE Scenes[i])
    /\ UNCHANGED <<pc, args, project_repo, task_repo, task_id, project, storyboard, notified,
                   input_scenes, video_segments, raised, output_path, measured,
                   subtitle_vars, manager_vars, zoom_vars,
                   request_vars, runs_vars>>

\* the caller's progress_callback raised inside the job's try block: the
\* except branch returns the scene (Images, Audio) or None (Video)
JobCallbackFail(i) ==
    /\ pc \in {"images", "audio", "video"}
    /\ job[i] = "callback"
    /\ Settle(i, "failed", IF pc = "video" THEN None ELSE Scenes[i])
    /\ UNCHANGED <<pc, args, project_repo, task_repo, task_id, project, storyboard, notified,
                   input_scenes, video_segments, raised, output_path, measured,
                   subtitle_vars, manager_vars, zoom_vars,
                   request_vars, runs_vars>>

\* variant: a gather that returns as soon as one image job has settled and
\* takes the scenes of the others as they are
ImagesGathered_Early ==
    /\ pc = "images"
    /\ \E i \in DOMAIN job : Settled(i)
    /\ storyboard' = [storyboard EXCEPT ![1].scenes =
                          [i \in DOMAIN job |-> IF Settled(i) THEN ret[i] ELSE Scenes[i]]]
    /\ pc' = "save_images"
    /\ UNCHANGED <<args, project_repo, task_repo, task_id, project, job, ret, settled,
                   notified, input_scenes, video_segments, raised, output_path, measured,
                   subtitle_vars, manager_vars, zoom_vars,
                   request_vars, runs_vars>>

\* generate_scene_images lines 84-93, execute line 102: the gather returns
\* and its result becomes storyboard.scenes
ImagesGathered ==
    /\ pc = "images"
    /\ AllSettled
    /\ storyboard' = [storyboard EXCEPT ![1].scenes = Gather(ret, settled)]
    /\ pc' = "save_images"
    /\ UNCHANGED <<args, project_repo, task_repo, task_id, project, job, ret, settled,
                   notified, input_scenes, video_segments, raised, output_path, measured,
                   subtitle_vars, manager_vars, zoom_vars,
                   request_vars, runs_vars>>

\* generate_scene_audios lines 108-120, execute line 127: the gather returns,
\* its result becomes storyboard.scenes and total_duration is recomputed
AudioGathered ==
    /\ pc = "audio"
    /\ AllSettled
    /\ storyboard' = <<calculate_duration(
                          [storyboard[1] EXCEPT !.scenes = Gather(ret, settled)])>>
    /\ pc' = "save_audio"
    /\ UNCHANGED <<args, project_repo, task_repo, task_id, project, job, ret, settled,
                   notified, input_scenes, video_segments, raised, output_path, measured,
                   subtitle_vars, manager_vars, zoom_vars,
                   request_vars, runs_vars>>

\* execute lines 109-114: the storyboard is saved and the Audio stage begins
ImagesSaved ==
    /\ pc = "save_images"
    /\ project_repo' = project_row(project, storyboard)
    /\ WriteTask(update_task_progress(Task, "audio", BeginProgress("audio"), None, None))
    /\ Launch(NumScenes)
    /\ pc' = "audio"
    /\ UNCHANGED <<args, task_id, project, storyboard, video_segments, raised, output_path,
                   measured, subtitle_vars, manager_vars, zoom_vars,
                   request_vars, runs_vars>>

\* execute lines 135-140: the storyboard is saved and the Video stage begins;
\* video_composition.py lines 108-115 and 155-158: every segment job runs to
\* its first await, the job of a scene without image returns None at once
AudioSaved ==
    /\ pc = "save_audio"
    /\ project_repo' = project_row(project, storyboard)
    /\ WriteTask(update_task_progress(Task, "video", BeginProgress("video"), None, None))
    /\ job' = [i \in 1..NumScenes |->
                  IF Scenes[i].image_path = None THEN "skipped" ELSE "call"]
    /\ ret' = [i \in 1..NumScenes |-> None]
    /\ settled' = SelectSeq([i \in 1..NumScenes |-> i], LAMBDA i : job'[i] = "skipped")
    /\ notified' = <<>>
    /\ input_scenes' = Scenes
    /\ pc' = "video"
    /\ UNCHANGED <<args, task_id, project, storyboard, video_segments, raised, output_path,
                   measured, subtitle_vars, manager_vars, zoom_vars,
                   request_vars, runs_vars>>

\* execute lines 110 / 136: project_repo.update raises
SaveFail ==
    /\ pc \in {"save_images", "save_audio"}
    /\ Raise("database error")
    /\ UNCHANGED <<args, project_repo, task_repo, task_id, project, storyboard, job, ret,
                   settled, notified, input_scenes, video_segments, output_path, measured,
                   subtitle_vars, manager_vars, zoom_vars,
                   request_vars, runs_vars>>

\* -------------------------------------------------------------- Video stage
\* video_composition.py generate_segment lines 117-148: the render (and the
\* audio mux of a scene with audio) succeeded
SegmentOk(i) ==
    /\ pc = "video"
    /\ job[i] = "call"
    /\ storyboard' = [storyboard EXCEPT ![1].scenes[i].video_path = SegmentPath(Scenes[i])]
    /\ Notify("video", i)
    /\ IF args.progress_callback
       THEN /\ job' = [job EXCEPT ![i] = "callback"]
            /\ UNCHANGED <<ret, settled>>
       ELSE Settle(i, "ok", SegmentPath(Scenes[i]))
    /\ UNCHANGED <<pc, args, project_repo, task_id, project, input_scenes, video_segments,
                   raised, output_path, measured, subtitle_vars, manager_vars, zoom_vars,
                   request_vars, runs_vars>>

\* generate_segment, except branch: the render or the mux raised
SegmentFail(i) ==
    /\ pc = "video"
    /\ job[i] = "call"
    /\ Settle(i, "failed", None)
    /\ UNCHANGED <<pc, args, project_repo, task_repo, task_id, project, storyboard, notified,
                   input_scenes, video_segments, raised, output_path, measured,
                   subtitle_vars, manager_vars, zoom_vars,
                   request_vars, runs_vars>>

\* variant: a composition that gives up as soon as one segment is missing
VideoDone_FailFast ==
    /\ pc = "video"
    /\ AllSettled
    /\ video_segments' = SelectSome(Gather(ret, settled))
    /\ IF Len(video_segments') < NumScenes
       THEN Raise("No video segments were generated")
       ELSE pc' = "concat" /\ UNCHANGED raised
    /\ UNCHANGED <<args, project_repo, task_repo, task_id, project, storyboard, job, ret,
                   settled, notified, input_scenes, output_path, measured, subtitle_vars,
                   manager_vars, zoom_vars,
                   request_vars, runs_vars>>

\* _generate_video_segments lines 158-165, compose_final_video lines 63-64
VideoDone ==
    /\ pc = "video"
    /\ AllSettled
    /\ video_segments' = SelectSome(Gather(ret, settled))
    /\ IF video_segments' = <<>>
       THEN Raise("No video segments were generated")
       ELSE pc' = "concat" /\ UNCHANGED raised
    /\ UNCHANGED <<args, project_repo, task_repo, task_id, project, storyboard, job, ret,
                   settled, notified, input_scenes, output_path, measured, subtitle_vars,
                   manager_vars, zoom_vars,
                   request_vars, runs_vars>>

\* compose_final_video lines 79-81: the final notification goes through
\* video_progress_callback with progress 1.0 and current = len(scenes)
Composed ==
    /\ WriteTask(stage_progress_callback(Task, "video",
                    [current |-> NumScenes, total |-> NumScenes, progress |-> Unit]))
    /\ notified' = Append(notified,
                    [current |-> NumScenes, total |-> NumScenes, progress |-> Unit])
    /\ pc' = IF args.progress_callback THEN "final_callback" ELSE "finish"

\* _concat_videos succeeded
ConcatOk ==
    /\ pc = "concat"
    /\ IF args.enable_subtitles
       THEN pc' = "subtitles" /\ UNCHANGED <<task_repo, notified>>
       ELSE Composed
    /\ UNCHANGED <<args, project_repo, task_id, project, storyboard, job, ret, settled,
                   input_scenes, video_segments, raised, output_path, measured,
                   subtitle_vars, manager_vars, zoom_vars,
                   request_vars, runs_vars>>

\* subtitle_renderer.py render_subtitles lines 206-208 succeeded: the ASS
\* track of the whole storyboard is burnt into the concatenated video
SubtitlesOk ==
    /\ pc = "subtitles"
    /\ cue_track' = <<generate_ass_content(storyboard[1])>>
    /\ Composed
    /\ UNCHANGED <<args, project_repo, task_id, project, storyboard, job, ret, settled,
                   input_scenes, video_segments, raised, output_path, measured,
                   manager_vars, zoom_vars,
                   request_vars, runs_vars>>

\* _concat_videos or render_subtitles raised
ComposeFail ==
    /\ pc \in {"concat", "subtitles"}
    /\ Raise(IF pc = "concat" THEN "Failed to concat videos" ELSE "Failed to render subtitles")
    /\ UNCHANGED <<args, project_repo, task_repo, task_id, project, storyboard, job, ret,
                   settled, notified, input_scenes, video_segments, output_path, measured,
                   subtitle_vars, manager_vars, zoom_vars,
                   request_vars, runs_vars>>

\* the caller's progress_callback returned from the final notification
FinalCallbackOk ==
    /\ pc = "final_callback"
    /\ pc' = "finish"
    /\ UNCHANGED <<args, project_repo, task_repo, task_id, project, storyboard, job, ret,
                   settled, notified, input_scenes, video_segments, raised, output_path,
                   measured, subtitle_vars, manager_vars, zoom_vars,
                   request_vars, runs_vars>>

\* the caller's progress_callback raised in the final notification, which
\* no try block of compose_final_video covers
FinalCallbackFail ==
    /\ pc = "final_callback"
    /\ Raise("progress callback failed")
    /\ UNCHANGED <<args, project_repo, task_repo, task_id, project, storyboard, job, ret,
                   settled, notified, input_scenes, video_segments, output_path, measured,
                   subtitle_vars, manager_vars, zoom_vars,
                   request_vars, runs_vars>>

\* ------------------------------------------------------- execute: the end
\* compose_final_video lines 67-75: the path of the final video
FinalOutput == IF args.enable_subtitles THEN <<"final_subtitled", 0>> ELSE <<"final", 0>>

\* execute line 161
Finish ==
    /\ pc = "finish"
    /\ WriteTask(update_task_progress(Task, "done", 10 * Unit, None, None))
    /\ pc' = "set_output"
    /\ UNCHANGED <<args, project_repo, task_id, project, storyboard, job, ret, settled,
                   notified, input_scenes, video_segments, raised, output_path, measured,
                   subtitle_vars, manager_vars, zoom_vars,
                   request_vars, runs_vars>>

\* execute lines 164-167
SetVideoOutputOk ==
    /\ pc = "set_output"
    /\ project_repo' = set_video_output(project_repo, FinalOutput)
    /\ output_path' = FinalOutput
    /\ pc' = "returned"
    /\ UNCHANGED <<args, task_repo, task_id, project, storyboard, job, ret, settled,
                   notified, input_scenes, video_segments, raised, measured, subtitle_vars,
                   manager_vars, zoom_vars,
                   request_vars, runs_vars>>

\* project_repo.set_video_output raises
SetVideoOutputFail ==
    /\ pc = "set_output"
    /\ Raise("database error")
    /\ UNCHANGED <<args, project_repo, task_repo, task_id, project, storyboard, job, ret,
                   settled, notified, input_scenes, video_segments, output_path, measured,
                   subtitle_vars, manager_vars, zoom_vars,
                   request_vars, runs_vars>>

\* execute lines 169-179: the failure handler
Handler ==
    /\ pc = "except"
    /\ WriteTask(update_task_progress(Task, FailureStage, FailureProgress(Task),
                                      None, raised))
    /\ project_repo' = update_status(project_repo, "failed", raised)
    /\ pc' = "raised"
    /\ UNCHANGED <<args, task_id, project, storyboard, job, ret, settled, notified,
                   input_scenes, video_segments, raised, output_path, measured,
                   subtitle_vars, manager_vars, zoom_vars,
                   request_vars, runs_vars>>

\* ---------------------------------------------------------- specification
Next ==
    \/ Execute
    \/ AnalyzeOk
    \/ AnalyzeFail
    \/ UpdateStoryboardFail
    \/ NoScenes
    \/ BeginImages
    \/ \E i \in DOMAIN job : JobStart(i)
    \/ \E i \in DOMAIN job : ImageCallOk(i)
    \/ \E i \in DOMAIN job : AudioCallOk(i)
    \/ \E i \in DOMAIN job : JobCallFail(i)
    \/ \E i \in DOMAIN job : JobCallbackOk(i)
    \/ \E i \in DOMAIN job : JobCallbackFail(i)
    \/ ImagesGathered
    \/ AudioGathered
    \/ ImagesSaved
    \/ AudioSaved
    \/ SaveFail
    \/ \E i \in DOMAIN job : SegmentOk(i)
    \/ \E i \in DOMAIN job : SegmentFail(i)
    \/ VideoDone
    \/ ConcatOk
    \/ SubtitlesOk
    \/ ComposeFail
    \/ FinalCallbackOk
    \/ FinalCallbackFail
    \/ Finish
    \/ SetVideoOutputOk
    \/ SetVideoOutputFail
    \/ Handler

Spec == Init /\ [][Next]_vars

\* ------------------------------------- standalone duration operations
\* audio_synthesis.py regenerate_scene_audio: path of the regenerated audio
RegenAudioPath(scene) == <<"audio_regen", scene.order>>

\* audio_synthesis.py regenerate_scene_audio: the scene after synthesize
\* returned `duration`
regenerate_scene_audio(scene, duration) ==
    [scene EXCEPT !.audio_path = RegenAudioPath(scene), !.duration = duration]

\* audio_synthesis.py sync_duration_to_audio: the scenes after the loop,
\* probe[i] being what _get_audio_duration returned for scene i (0.0 when
\* the probe failed or the file is gone; a scene without audio is passed
\* over)
sync_duration_to_audio(scenes, probe) ==
    [i \in 1..Len(scenes) |->
        IF scenes[i].audio_path # None /\ probe[i] > 0
        THEN [scenes[i] EXCEPT !.duration = probe[i]]
        ELSE scenes[i]]

\* audio_synthesis.py generate_scene_audios as one step: result[i] is what
\* synthesize returned for scene i, None when it raised
generate_scene_audios(sb, result) ==
    calculate_duration(
        [sb EXCEPT !.scenes =
            [i \in 1..Len(sb.scenes) |->
                IF result[i] = None THEN sb.scenes[i]
                ELSE [sb.scenes[i] EXCEPT
                        !.audio_path = AudioPath(sb.scenes[i]),
                        !.duration = ReconcileDuration(sb.scenes[i], result[i][1])]]])

\* a project whose storyboard went through analysis: every scene has its
\* planned duration, total_duration is their sum, no run is in progress
InitDurations ==
    /\ NoRun
    /\ \E n \in 1..MaxScenes, planned \in PlannedDurations :
          /\ storyboard = <<NewStoryboard(n, planned)>>
          /\ project_repo = [status |-> "ready", video_output_path |-> None,
                             error_message |-> None, storyboard_data |-> storyboard]
    /\ SubtitlesInit
    /\ ManagerInit
    /\ OthersInit

\* the Audio stage on a storyboard that has no audio yet
GenerateSceneAudios ==
    /\ \A i \in 1..NumScenes : Scenes[i].audio_path = None
    /\ \E result \in [1..NumScenes -> {None} \cup {<<d>> : d \in SynthesizedDurations}] :
          /\ storyboard' = <<generate_scene_audios(storyboard[1], result)>>
          /\ measured' = result
    /\ input_scenes' = Scenes
    /\ UNCHANGED <<pc, args, project_repo, task_repo, task_id, project, job, ret,
                   settled, notified, video_segments, raised, output_path,
                   subtitle_vars, manager_vars, zoom_vars,
                   request_vars, runs_vars>>

RegenerateSceneAudio(i) ==
    /\ \E duration \in SynthesizedDurations :
          storyboard' = [storyboard EXCEPT ![1].scenes[i] =
                            regenerate_scene_audio(Scenes[i], duration)]
    /\ measured' = <<>>
    /\ input_scenes' = <<>>
    /\ UNCHANGED <<pc, args, project_repo, task_repo, task_id, project, job, ret,
                   settled, notified, video_segments, raised, output_path,
                   subtitle_vars, manager_vars, zoom_vars,
                   request_vars, runs_vars>>

SyncDurationToAudio ==
    /\ \E probe \in [1..NumScenes -> SynthesizedDurations] :
          storyboard' = [storyboard EXCEPT ![1].scenes =
                            sync_duration_to_audio(Scenes, probe)]
    /\ measured' = <<>>
    /\ input_scenes' = <<>>
    /\ UNCHANGED <<pc, args, project_repo, task_repo, task_id, project, job, ret,
                   settled, notified, video_segments, raised, output_path,
                   subtitle_vars, manager_vars, zoom_vars,
                   request_vars, runs_vars>>

NextDurations ==
    \/ GenerateSceneAudios
    \/ \E i \in 1..NumScenes : RegenerateSceneAudio(i)
    \/ SyncDurationToAudio

SpecDurations == InitDurations /\ [][NextDurations]_vars

\* ------------------------------------------------- subtitles: the actions
\* a storyboard of up to MaxSubtitleScenes scenes, each with a narration and
\* a duration of its own
InitSubtitles ==
    /\ NoRun
    /\ \E n \in 0..MaxSubtitleScenes :
       \E narration \in [1..n -> Narrations], duration \in [1..n -> SubtitleDurations] :
          storyboard = <<calculate_duration(
              [id |-> 1,
               scenes |-> [i \in 1..n |->
                              [StoryboardScene(i - 1, duration[i])
                                  EXCEPT !.narration = narration[i]]],
               total_duration |-> 0])>>
    /\ project_repo = [status |-> "ready", video_output_path |-> None,
                       error_message |-> None, storyboard_data |-> storyboard]
    /\ SubtitlesInit
    /\ ManagerInit
    /\ OthersInit

GenerateSrt ==
    /\ cue_track = None
    /\ cue_track' = <<generate_srt_content(storyboard[1])>>
    /\ UNCHANGED <<exec_vars, manager_vars, zoom_vars,
                   request_vars, runs_vars>>

GenerateAss ==
    /\ cue_track = None
    /\ cue_track' = <<generate_ass_content(storyboard[1])>>
    /\ UNCHANGED <<exec_vars, manager_vars, zoom_vars,
                   request_vars, runs_vars>>

NextSubtitles == GenerateSrt \/ GenerateAss

SpecSubtitles == InitSubtitles /\ [][NextSubtitles]_vars

\* ------------------------------------------------------ progress broadcast
\* list.remove(websocket); a websocket is in the list at most once
Remove(list, w) == SelectSeq(list, LAMBDA x : x # w)

\* the list object a send_progress call iterates over: the list that was
\* under the key when the loop began.  disconnect deletes the key once the
\* list is empty, after which a new connection gets a fresh list this loop
\* never sees (detached).
IteratedList(e) ==
    IF sending[e].detached THEN <<>> ELSE active_connections[sending[e].project_id]

InLoop(e) == sending[e] # None /\ sending[e].state = "loop"

SendDone(e) == sending[e] # None /\ sending[e].state = "done"

ManagerIdleRun ==
    /\ NoRun
    /\ storyboard = None
    /\ project_repo = [status |-> "generating", video_output_path |-> None,
                       error_message |-> None, storyboard_data |-> None]
    /\ SubtitlesInit

InitBroadcast == ManagerIdleRun /\ ManagerInit /\ OthersInit

\* main.py websocket_endpoint -> ConnectionManager.connect: accept, then
\* append to the project's list (created when the key is missing)
Connect(w, p) ==
    /\ sockets[w].state = "new"
    /\ active_connections' = [active_connections EXCEPT ![p] = Append(@, w)]
    /\ sockets' = [sockets EXCEPT ![w] =
                      [state |-> "open", project_id |-> p,
                       missed |-> {e \in Events : SendDone(e)}]]
    /\ UNCHANGED <<sending, received, write_failed, exec_vars, subtitle_vars, zoom_vars,
                   request_vars, runs_vars>>

\* the peer of an open websocket goes away: from now on send_json raises and
\* the endpoint's receive_text will raise WebSocketDisconnect
PeerGone(w) ==
    /\ sockets[w].state = "open"
    /\ sockets' = [sockets EXCEPT ![w].state = "broken"]
    /\ sending' = [e \in Events |->
                      IF InLoop(e) THEN [sending[e] EXCEPT !.throughout = @ \ {w}]
                      ELSE sending[e]]
    /\ UNCHANGED <<active_connections, received, write_failed, exec_vars, subtitle_vars, zoom_vars,
                   request_vars, runs_vars>>

\* websocket_endpoint, except branches -> ConnectionManager.disconnect
Disconnect(w) ==
    /\ sockets[w].state = "broken"
    /\ LET p == sockets[w].project_id
           rest == Remove(active_connections[p], w)
       IN  /\ active_connections' = [active_connections EXCEPT ![p] = rest]
           /\ sending' = [e \in Events |->
                             IF InLoop(e) /\ sending[e].project_id = p /\ rest = <<>>
                             THEN [sending[e] EXCEPT !.detached = TRUE]
                             ELSE sending[e]]
    /\ sockets' = [sockets EXCEPT ![w].state = "closed"]
    /\ UNCHANGED <<received, write_failed, exec_vars, subtitle_vars, zoom_vars,
                   request_vars, runs_vars>>

\* ConnectionManager.send_progress is called with event e for project p:
\* without a list under the key it returns at once, otherwise the loop
\* begins.  `throughout` records the live subscribers registered since the
\* send began.
StartSend(e, p) ==
    /\ sending[e] = None
    /\ \A d \in Events : d < e => sending[d] # None
    /\ sending' = [sending EXCEPT ![e] =
          [project_id |-> p, it |-> 0, detached |-> FALSE,
           state |-> IF active_connections[p] = <<>> THEN "done" ELSE "loop",
           throughout |-> {w \in WebSockets :
                              /\ sockets[w].state = "open"
                              /\ sockets[w].project_id = p}]]
    /\ UNCHANGED <<active_connections, sockets, received, write_failed,
                   exec_vars, subtitle_vars, zoom_vars,
                   request_vars, runs_vars>>

\* one turn of `for connection in self.active_connections[project_id]`: the
\* list iterator yields the element at its index and send_json succeeds
WriteOk(e) ==
    /\ InLoop(e)
    /\ sending[e].it < Len(IteratedList(e))
    /\ LET w == IteratedList(e)[sending[e].it + 1] IN
          /\ sockets[w].state = "open"
          /\ received' = [received EXCEPT ![w] = Append(@, e)]
    /\ sending' = [sending EXCEPT ![e].it = @ + 1]
    /\ UNCHANGED <<active_connections, sockets, write_failed, exec_vars, subtitle_vars, zoom_vars,
                   request_vars, runs_vars>>

\* one turn of the loop in which send_json raises: the except branch logs
\* the error and the loop goes on
WriteFail(e) ==
    /\ InLoop(e)
    /\ sending[e].it < Len(IteratedList(e))
    /\ LET w == IteratedList(e)[sending[e].it + 1] IN
          /\ sockets[w].state # "open"
          /\ write_failed' = write_failed \cup {<<e, w>>}
    /\ sending' = [sending EXCEPT ![e].it = @ + 1]
    /\ UNCHANGED <<active_connections, sockets, received, exec_vars, subtitle_vars, zoom_vars,
                   request_vars, runs_vars>>

\* the list iterator is exhausted: send_progress returns
SendReturn(e) ==
    /\ InLoop(e)
    /\ sending[e].it >= Len(IteratedList(e))
    /\ sending' = [sending EXCEPT ![e].state = "done"]
    /\ UNCHANGED <<active_connections, sockets, received, write_failed,
                   exec_vars, subtitle_vars, zoom_vars,
                   request_vars, runs_vars>>

NextBroadcast ==
    \/ \E w \in WebSockets, p \in ProjectIds : Connect(w, p)
    \/ \E w \in WebSockets : PeerGone(w)
    \/ \E w \in WebSockets : Disconnect(w)
    \/ \E e \in Events, p \in ProjectIds : StartSend(e, p)
    \/ \E e \in Events : WriteOk(e)
    \/ \E e \in Events : WriteFail(e)
    \/ \E e \in Events : SendReturn(e)

SpecBroadcast == InitBroadcast /\ [][NextBroadcast]_vars

\* ------------------------------------------------------ Ken Burns zoom
\* Zoom factors are fixed-point numbers in units of 1/10000.
ZoomOne == 10000

\* ken_burns.py KenBurnsEffectConfig.DEFAULT_ZOOM_SPEED = 0.0015
DEFAULT_ZOOM_SPEED == 15

\* ken_burns.py KenBurnsEffectConfig.DEFAULT_MAX_ZOOM = 1.5
DEFAULT_MAX_ZOOM == 15000

\* the frames of a rendered segment the model follows
MaxFrames == 120

Min(a, b) == IF a < b THEN a ELSE b

Max(a, b) == IF a > b THEN a ELSE b

\* _build_zoompan_filter, ZOOM_IN: z='min(zoom+0.0015,1.5)'
ZoomInExpr(zoom) == Min(zoom + DEFAULT_ZOOM_SPEED, DEFAULT_MAX_ZOOM)

\* _build_zoompan_filter, ZOOM_OUT: z='max(1.5-zoom+0.0015,1.0)'
ZoomOutExpr(zoom) == Max(DEFAULT_MAX_ZOOM - zoom + DEFAULT_ZOOM_SPEED, ZoomOne)

\* _build_zoompan_filter: the filter string of a zoom effect, as the fields
\* the zoompan filter reads.  The ZOOM_OUT string sets the zoom expression
\* twice, as z='max(...)' and as zoom=1.5 (z is the short name of the zoom
\* option): `constant` tells which of the two the filter evaluates, the
\* expression or the constant 1.5.  `zoom` is the value the variable zoom has
\* for the first frame: 1.0, or 1.5 where the trailing zoom=1.5 is read as
\* the initial value.
build_zoompan_filter(effect, constant, initial) ==
    [effect |-> effect,
     constant |-> effect = "zoom_out" /\ constant,
     frame |-> 0,
     zoom |-> IF effect = "zoom_out" THEN initial ELSE ZoomOne]

\* the zoom of the next frame: the z expression evaluated with the variable
\* zoom holding the zoom of the previous frame
NextZoom(f) ==
    IF f.effect = "zoom_in" THEN ZoomInExpr(f.zoom)
    ELSE IF f.constant THEN DEFAULT_MAX_ZOOM
    ELSE ZoomOutExpr(f.zoom)

InitZoom ==
    /\ NoRun
    /\ storyboard = None
    /\ project_repo = [status |-> "generating", video_output_path |-> None,
                       error_message |-> None, storyboard_data |-> None]
    /\ SubtitlesInit
    /\ ManagerInit
    /\ ZoomInit
    /\ RequestInit
    /\ RunsInit

\* generate_ken_burns lines 117-121: the filter of a zoom effect is built
BuildZoompanFilter ==
    /\ zoompan = None
    /\ \E effect \in {"zoom_in", "zoom_out"}, constant \in BOOLEAN,
          initial \in {ZoomOne, DEFAULT_MAX_ZOOM} :
          zoompan' = <<build_zoompan_filter(effect, constant, initial)>>
    /\ UNCHANGED <<exec_vars, subtitle_vars, manager_vars, request_vars, runs_vars>>

\* the filter produces its next frame (d=1: one output frame per input frame)
RenderFrame ==
    /\ zoompan # None
    /\ zoompan[1].frame < MaxFrames
    /\ zoompan' = <<[zoompan[1] EXCEPT !.frame = @ + 1, !.zoom = NextZoom(zoompan[1])]>>
    /\ UNCHANGED <<exec_vars, subtitle_vars, manager_vars, request_vars, runs_vars>>

NextZoomStep ==
    \/ BuildZoompanFilter
    \/ RenderFrame

SpecZoom == InitZoom /\ [][NextZoomStep]_vars

\* ------------------------------------------ generation request and its run
\* main.py generate_video and _run_video_generation around execute.  The
\* run is followed job by job: the jobs of a stage settle one after the
\* other in scene order (`settled` holds the jobs of the current stage that
\* are over), which is one of the schedules of the fan-out.

\* audio_synthesis.py _get_tts_client: tts_engine is compared with the
\* engine names; whatever equals neither "indextts" nor "sovits" (the
\* booleans True and False included) selects the Edge client.  A Python
\* value is a pair of its type and its content.
get_tts_client(tts_engine) ==
    IF tts_engine = <<"str", "indextts">> THEN "indextts"
    ELSE IF tts_engine = <<"str", "sovits">> THEN "sovits"
    ELSE "edge"

\* main.py progress_callback lines 236-245: the response built from a task row
TaskProgressResponse(id, task) ==
    [task_id |-> id, stage |-> task.stage, progress |-> task.progress,
     current_scene |-> task.current_scene, total_scenes |-> task.total_scenes]

\* main.py progress_callback: the task of the request is read back and sent
\* to the subscribers of the project
PushProgress(tasks) ==
    pushed' = Append(pushed, TaskProgressResponse(request_task_id, tasks[request_task_id]))

InitRequest ==
    /\ pc = "idle"
    /\ args = [enable_subtitles |-> TRUE, progress_callback |-> TRUE,
               max_concurrent_images |-> 1, max_concurrent_audio |-> 1]
    /\ \E has \in BOOLEAN, n \in 0..MaxScenes, planned \in PlannedDurations :
          project_repo =
              [status |-> IF has THEN "ready" ELSE "draft",
               video_output_path |-> None,
               error_message |-> None,
               storyboard_data |-> IF has THEN <<NewStoryboard(n, planned)>> ELSE None]
    /\ task_repo = <<>>
    /\ task_id = 0
    /\ project = None
    /\ storyboard = None
    /\ job = <<>>
    /\ ret = <<>>
    /\ settled = <<>>
    /\ notified = <<>>
    /\ input_scenes = <<>>
    /\ video_segments = <<>>
    /\ raised = None
    /\ output_path = None
    /\ measured = <<>>
    /\ SubtitlesInit
    /\ ManagerInit
    /\ OthersInit

\* main.py generate_video lines 279-283: the project has no storyboard, 400
GenerateVideoRejected ==
    /\ pc = "idle"
    /\ row_to_storyboard(project_repo.storyboard_data) = None
    /\ \E use_sovits \in BOOLEAN, enable_subtitles \in BOOLEAN :
          request' = <<[use_sovits |-> use_sovits, enable_subtitles |-> enable_subtitles]>>
    /\ pc' = "rejected"
    /\ UNCHANGED <<args, project_repo, task_repo, task_id, project, storyboard, job, ret,
                   settled, notified, input_scenes, video_segments, raised, output_path,
                   measured, subtitle_vars, manager_vars, zoom_vars, request_task_id,
                   pushed, tts_client, runs_vars>>

\* main.py generate_video lines 285-307: the task of the request is created
\* and returned, the project marked generating, the run queued
GenerateVideo ==
    /\ pc = "idle"
    /\ row_to_storyboard(project_repo.storyboard_data) # None
    /\ \E use_sovits \in BOOLEAN, enable_subtitles \in BOOLEAN :
          /\ request' = <<[use_sovits |-> use_sovits, enable_subtitles |-> enable_subtitles]>>
          /\ args' = [args EXCEPT !.enable_subtitles = enable_subtitles]
    /\ task_repo' = Append(task_repo,
          [GenerationTask EXCEPT
              !.total_scenes = Len(row_to_storyboard(project_repo.storyboard_data)[1].scenes)])
    /\ request_task_id' = Len(task_repo) + 1
    /\ project_repo' = update_status(project_repo, "generating", None)
    /\ pc' = "queued"
    /\ UNCHANGED <<task_id, project, storyboard, job, ret, settled, notified, input_scenes,
                   video_segments, raised, output_path, measured, subtitle_vars,
                   manager_vars, zoom_vars, pushed, tts_client, runs_vars>>

\* _run_video_generation line 248 into execute lines 52-106: the run loads
\* the project, creates its task, checks the scenes and begins the Images
\* stage
RunExecute ==
    /\ pc = "queued"
    /\ project' = row_to_project(project_repo)
    /\ storyboard' = row_to_storyboard(project_repo.storyboard_data)
    /\ task_id' = Len(task_repo) + 1
    /\ settled' = <<>>
    /\ IF Len(storyboard'[1].scenes) = 0
       THEN /\ task_repo' = Append(task_repo, GenerationTask)
            /\ Raise("No scenes in storyboard")
       ELSE /\ task_repo' = Append(task_repo,
                   update_task_progress(
                       [GenerationTask EXCEPT !.total_scenes = Len(storyboard'[1].scenes)],
                       "images", BeginProgress("images"), None, None))
            /\ pc' = "images"
            /\ UNCHANGED raised
    /\ UNCHANGED <<args, project_repo, job, ret, notified, input_scenes, video_segments,
                   output_path, measured, subtitle_vars, manager_vars, zoom_vars,
                   request_vars, runs_vars>>

\* the scene of job i of the stage after its external call succeeded
JobResult(stage, scene, duration) ==
    CASE stage = "images" -> [scene EXCEPT !.image_path = ImagePath(scene)]
      [] stage = "audio" -> [scene EXCEPT !.audio_path = AudioPath(scene),
                                          !.duration = ReconcileDuration(scene, duration)]
      [] stage = "video" -> [scene EXCEPT !.video_path = SegmentPath(scene)]

\* generate_one / generate_segment of the next scene succeeded: the stage
\* callback writes the run's task and calls the caller's progress_callback,
\* which pushes an event to the subscribers
RunJobOk ==
    /\ pc \in {"images", "audio", "video"}
    /\ Len(settled) < NumScenes
    /\ LET i == Len(settled) + 1 IN
       /\ pc = "video" => Scenes[i].image_path # None
       /\ \E duration \in MeasuredDurations :
             storyboard' = [storyboard EXCEPT ![1].scenes[i] = JobResult(pc, Scenes[i], duration)]
       /\ WriteTask(stage_progress_callback(Task, pc, Notification(i - 1, NumScenes)))
       /\ PushProgress(task_repo')
       /\ settled' = Append(settled, i)
    /\ UNCHANGED <<pc, args, project_repo, task_id, project, job, ret, notified,
                   input_scenes, video_segments, raised, output_path, measured,
                   subtitle_vars, manager_vars, zoom_vars, request, request_task_id,
                   tts_client, runs_vars>>

\* generate_one / generate_segment of the next scene failed, or the segment
\* job skipped a scene without image: no callback, the scene is left alone
RunJobFail ==
    /\ pc \in {"images", "audio", "video"}
    /\ Len(settled) < NumScenes
    /\ settled' = Append(settled, Len(settled) + 1)
    /\ UNCHANGED <<pc, args, project_repo, task_repo, task_id, project, storyboard, job,
                   ret, notified, input_scenes, video_segments, raised, output_path,
                   measured, subtitle_vars, manager_vars, zoom_vars, request_vars, runs_vars>>

\* execute lines 109-127: the images are saved, the Audio stage begins and
\* generate_scene_audios (line 62) selects its client from the third
\* argument of the call, which is use_sovits
RunImagesDone ==
    /\ pc = "images"
    /\ Len(settled) = NumScenes
    /\ project_repo' = project_row(project, storyboard)
    /\ WriteTask(update_task_progress(Task, "audio", BeginProgress("audio"), None, None))
    /\ tts_client' = <<get_tts_client(<<"bool", request[1].use_sovits>>)>>
    /\ settled' = <<>>
    /\ pc' = "audio"
    /\ UNCHANGED <<args, task_id, project, storyboard, job, ret, notified, input_scenes,
                   video_segments, raised, output_path, measured, subtitle_vars,
                   manager_vars, zoom_vars, request, request_task_id, pushed, runs_vars>>

\* generate_scene_audios line 118, execute lines 134-140: total_duration is
\* recomputed, the storyboard saved and the Video stage begins
RunAudioDone ==
    /\ pc = "audio"
    /\ Len(settled) = NumScenes
    /\ storyboard' = <<calculate_duration(storyboard[1])>>
    /\ project_repo' = project_row(project, storyboard')
    /\ WriteTask(update_task_progress(Task, "video", BeginProgress("video"), None, None))
    /\ settled' = <<>>
    /\ pc' = "video"
    /\ UNCHANGED <<args, task_id, project, job, ret, notified, input_scenes,
                   video_segments, raised, output_path, measured, subtitle_vars,
                   manager_vars, zoom_vars, request_vars, runs_vars>>

\* compose_final_video lines 63-81: with at least one segment the video is
\* concatenated and the final notification goes through the stage callback
\* to the caller's progress_callback; without any segment it raises
RunVideoDone ==
    /\ pc = "video"
    /\ Len(settled) = NumScenes
    /\ IF \A i \in 1..NumScenes : Scenes[i].video_path = None
       THEN /\ Raise("No video segments were generated")
            /\ UNCHANGED <<task_repo, pushed>>
       ELSE /\ WriteTask(stage_progress_callback(Task, "video",
                    [current |-> NumScenes, total |-> NumScenes, progress |-> Unit]))
            /\ PushProgress(task_repo')
            /\ pc' = "finish"
            /\ UNCHANGED raised
    /\ UNCHANGED <<args, project_repo, task_id, project, storyboard, job, ret, settled,
                   notified, input_scenes, video_segments, output_path, measured,
                   subtitle_vars, manager_vars, zoom_vars, request, request_task_id,
                   tts_client, runs_vars>>

\* execute lines 161-167 and _run_video_generation line 254: the run's task
\* is done, the output recorded, execute returns
RunFinish ==
    /\ pc = "finish"
    /\ WriteTask(update_task_progress(Task, "done", 10 * Unit, None, None))
    /\ project_repo' = set_video_output(project_repo, FinalOutput)
    /\ output_path' = FinalOutput
    /\ pc' = "returned"
    /\ UNCHANGED <<args, task_id, project, storyboard, job, ret, settled, notified,
                   input_scenes, video_segments, raised, measured, subtitle_vars,
                   manager_vars, zoom_vars, request_vars, runs_vars>>

\* a stage-level call raises: a save, the concatenation, the subtitles
RunStageFail ==
    /\ pc \in {"images", "audio", "video", "finish"}
    /\ Len(settled) = NumScenes
    /\ Raise(IF pc = "video" THEN "Failed to concat videos" ELSE "database error")
    /\ UNCHANGED <<args, project_repo, task_repo, task_id, project, storyboard, job, ret,
                   settled, notified, input_scenes, video_segments, output_path, measured,
                   subtitle_vars, manager_vars, zoom_vars, request_vars, runs_vars>>

\* execute lines 169-179, then _run_video_generation lines 257-264: the
\* failure handler writes the run's task and the project, re-raises, and the
\* background task records the error on the task of the request
RunFailed ==
    /\ pc = "except"
    /\ task_repo' = [task_repo EXCEPT
          ![task_id] = update_task_progress(@, FailureStage, FailureProgress(@), None, raised),
          ![request_task_id] = [@ EXCEPT !.error = raised]]
    /\ project_repo' = update_status(project_repo, "failed", raised)
    /\ pc' = "raised"
    /\ UNCHANGED <<args, task_id, project, storyboard, job, ret, settled, notified,
                   input_scenes, video_segments, raised, output_path, measured,
                   subtitle_vars, manager_vars, zoom_vars, request_vars, runs_vars>>

NextRequest ==
    \/ GenerateVideoRejected
    \/ GenerateVideo
    \/ RunExecute
    \/ RunJobOk
    \/ RunJobFail
    \/ RunImagesDone
    \/ RunAudioDone
    \/ RunVideoDone
    \/ RunFinish
    \/ RunStageFail
    \/ RunFailed

SpecRequest == InitRequest /\ [][NextRequest]_vars

\* -------------------------------------------- several runs on one project
\* Runs of execute on the same project, each started by a generation
\* request, each with its own in-memory Project and Storyboard loaded from
\* the shared project row.  A stage and the save that follows it are one
\* step; within a stage the first scene's job may fail or measure a
\* duration of its own, the jobs of the other scenes succeed and measure
\* what was planned.  The task rows of the runs are separate records
\* (SpecRequest) and are not followed here.
MaxRuns == 2

RunIds == 1..MaxRuns

\* what synthesize may measure for the first scene: nothing, 6.0 s, 12.0 s
RunMeasuredDurations == {0, 60, 120}

IdleRun == [pc |-> "idle", project |-> None, storyboard |-> None, error |-> None]

\* the stages of a run in which it reads and writes its storyboard
InStages(run) == run.pc \in {"images", "audio", "video"}

\* generate_scene_images: the scenes after the Images stage; the job of the
\* first scene may fail
ImagesResult(scenes, failed) ==
    [i \in 1..Len(scenes) |->
        IF i = 1 /\ failed THEN scenes[i]
        ELSE [scenes[i] EXCEPT !.image_path = ImagePath(scenes[i])]]

\* generate_scene_audios: the scenes after the Audio stage; the first scene
\* measures `duration`, the others what was planned
AudioResult(scenes, duration) ==
    [i \in 1..Len(scenes) |->
        [scenes[i] EXCEPT
            !.audio_path = AudioPath(scenes[i]),
            !.duration = ReconcileDuration(scenes[i],
                             IF i = 1 THEN duration ELSE scenes[i].duration)]]

\* _generate_video_segments: the scenes after the Video stage; a scene
\* without image is skipped, the render of the first scene may fail
VideoResult(scenes, failed) ==
    [i \in 1..Len(scenes) |->
        IF scenes[i].image_path = None \/ (i = 1 /\ failed) THEN scenes[i]
        ELSE [scenes[i] EXCEPT !.video_path = SegmentPath(scenes[i])]]

InitRuns ==
    /\ NoRun
    /\ storyboard = None
    /\ \E n \in 0..MaxScenes, planned \in PlannedDurations :
          project_repo =
              [status |-> "ready", video_output_path |-> None, error_message |-> None,
               storyboard_data |-> <<NewStoryboard(n, planned)>>]
    /\ SubtitlesInit
    /\ ManagerInit
    /\ ZoomInit
    /\ RequestInit
    /\ runs = [r \in RunIds |-> IdleRun]

\* main.py generate_video lines 279-283: the project's storyboard cannot be
\* loaded, the request is rejected with 400
StartRejected(r) ==
    /\ runs[r].pc = "idle"
    /\ row_to_storyboard(project_repo.storyboard_data) = None
    /\ runs' = [runs EXCEPT ![r].pc = "rejected"]
    /\ UNCHANGED <<exec_vars, subtitle_vars, manager_vars, zoom_vars, request_vars>>

\* variant: a request that is rejected while another run is in its stages
StartRun_Serialised(r) ==
    /\ runs[r].pc = "idle"
    /\ \A q \in RunIds : ~InStages(runs[q])
    /\ row_to_storyboard(project_repo.storyboard_data) # None
    /\ project_repo' = update_status(project_repo, "generating", None)
    /\ LET sb == row_to_storyboard(project_repo'.storyboard_data) IN
       runs' = [runs EXCEPT ![r] =
                   [pc |-> IF Len(sb[1].scenes) = 0 THEN "except" ELSE "images",
                    project |-> row_to_project(project_repo'),
                    storyboard |-> sb,
                    error |-> IF Len(sb[1].scenes) = 0
                              THEN <<"No scenes in storyboard">> ELSE None]]
    /\ UNCHANGED <<pc, args, task_repo, task_id, project, storyboard, job, ret, settled,
                   notified, input_scenes, video_segments, raised, output_path, measured,
                   subtitle_vars, manager_vars, zoom_vars, request_vars>>

\* main.py generate_video lines 276-307, execute lines 52-85: the request
\* finds the project with a storyboard, marks it generating and queues the
\* run; the run loads the project and checks the scenes.  Neither looks at
\* the project's status or at other runs.
StartRun(r) ==
    /\ runs[r].pc = "idle"
    /\ row_to_storyboard(project_repo.storyboard_data) # None
    /\ project_repo' = update_status(project_repo, "generating", None)
    /\ LET sb == row_to_storyboard(project_repo'.storyboard_data) IN
       runs' = [runs EXCEPT ![r] =
                   [pc |-> IF Len(sb[1].scenes) = 0 THEN "except" ELSE "images",
                    project |-> row_to_project(project_repo'),
                    storyboard |-> sb,
                    error |-> IF Len(sb[1].scenes) = 0
                              THEN <<"No scenes in storyboard">> ELSE None]]
    /\ UNCHANGED <<pc, args, task_repo, task_id, project, storyboard, job, ret, settled,
                   notified, input_scenes, video_segments, raised, output_path, measured,
                   subtitle_vars, manager_vars, zoom_vars, request_vars>>

\* execute lines 87-110: the Images stage of run r and the save after it
ImagesStage(r) ==
    /\ runs[r].pc = "images"
    /\ \E failed \in BOOLEAN :
          LET sb == [runs[r].storyboard EXCEPT ![1].scenes = ImagesResult(@, failed)]
          IN  /\ runs' = [runs EXCEPT ![r].storyboard = sb, ![r].pc = "audio"]
              /\ project_repo' = project_row(runs[r].project, sb)
    /\ UNCHANGED <<pc, args, task_repo, task_id, project, storyboard, job, ret, settled,
                   notified, input_scenes, video_segments, raised, output_path, measured,
                   subtitle_vars, manager_vars, zoom_vars, request_vars>>

\* execute lines 112-136: the Audio stage of run r, the recomputation of
\* total_duration and the save after it
AudioStage(r) ==
    /\ runs[r].pc = "audio"
    /\ \E duration \in RunMeasuredDurations :
          LET sb == <<calculate_duration(
                         [runs[r].storyboard[1] EXCEPT
                             !.scenes = AudioResult(@, duration)])>>
          IN  /\ runs' = [runs EXCEPT ![r].storyboard = sb, ![r].pc = "video"]
              /\ project_repo' = project_row(runs[r].project, sb)
    /\ UNCHANGED <<pc, args, task_repo, task_id, project, storyboard, job, ret, settled,
                   notified, input_scenes, video_segments, raised, output_path, measured,
                   subtitle_vars, manager_vars, zoom_vars, request_vars>>

\* execute lines 138-167: the Video stage of run r renders the scenes that
\* have an image, composes the final video and records it with
\* set_video_output; without any segment compose_final_video raises
VideoStage(r) ==
    /\ runs[r].pc = "video"
    /\ \E failed \in BOOLEAN :
          LET sb == [runs[r].storyboard EXCEPT ![1].scenes = VideoResult(@, failed)]
          IN  IF \A i \in 1..Len(sb[1].scenes) : sb[1].scenes[i].video_path = None
              THEN /\ runs' = [runs EXCEPT ![r].storyboard = sb, ![r].pc = "except",
                                           ![r].error = <<"No video segments were generated">>]
                   /\ UNCHANGED project_repo
              ELSE /\ runs' = [runs EXCEPT ![r].storyboard = sb, ![r].pc = "returned"]
                   /\ project_repo' = set_video_output(project_repo, FinalOutput)
    /\ UNCHANGED <<pc, args, task_repo, task_id, project, storyboard, job, ret, settled,
                   notified, input_scenes, video_segments, raised, output_path, measured,
                   subtitle_vars, manager_vars, zoom_vars, request_vars>>

\* execute lines 169-179: the failure handler of run r
FailRun(r) ==
    /\ runs[r].pc = "except"
    /\ project_repo' = update_status(project_repo, "failed", runs[r].error)
    /\ runs' = [runs EXCEPT ![r].pc = "raised"]
    /\ UNCHANGED <<pc, args, task_repo, task_id, project, storyboard, job, ret, settled,
                   notified, input_scenes, video_segments, raised, output_path, measured,
                   subtitle_vars, manager_vars, zoom_vars, request_vars>>

NextRuns ==
    \/ \E r \in RunIds : StartRejected(r)
    \/ \E r \in RunIds : StartRun(r)
    \/ \E r \in RunIds : ImagesStage(r)
    \/ \E r \in RunIds : AudioStage(r)
    \/ \E r \in RunIds : VideoStage(r)
    \/ \E r \in RunIds : FailRun(r)

SpecRuns == InitRuns /\ [][NextRuns]_vars

\* ------------------------------------------------------------------ claims
StageOver == pc \in {"save_images", "save_audio"}

\* C1: in the Images and Audio fan-outs the number of jobs inside their
\* external call or callback (holding the semaphore) never exceeds the
\* stage's concurrency ceiling.
C1_BoundedConcurrency ==
    pc \in {"images", "audio"} => Cardinality(InFlight) <= MaxConcurrentOf(pc)

C1_Witness ==
    /\ pc \in {"images", "audio"}
    /\ Cardinality(InFlight) = MaxConcurrentOf(pc)
    /\ \E i \in DOMAIN job : job[i] = "pending"

\* C2: the list a fan-out returns has one entry per input scene and entry i
\* is the scene that was at position i of the input, whatever the order in
\* which the jobs settled.
C2_ResultOrder ==
    StageOver =>
        /\ Len(Scenes) = Len(input_scenes)
        /\ \A i \in 1..Len(Scenes) : Scenes[i].id = input_scenes[i].id

C2_Witness ==
    /\ StageOver
    /\ Len(settled) >= 2
    /\ settled[1] > settled[2]

\* C3: a job in which an exception was raised (in the external call or in
\* the callback after it) returns its scene exactly as the stage received
\* it, and after an Images stage the scenes with an image are exactly the
\* scenes whose job did not fail.
C3_FailedJobLeavesSceneUnchanged ==
    /\ pc \in {"images", "audio", "save_images", "save_audio"} =>
          \A i \in DOMAIN job : job[i] = "failed" => ret[i] = input_scenes[i]
    /\ pc = "save_images" =>
          \A i \in DOMAIN job : (Scenes[i].image_path # None) <=> (job[i] # "failed")

\* C4: a stage over N scenes produces exactly N progress notifications, one
\* for every job that settled, whether it succeeded or failed.
C4_OneNotificationPerJob ==
    pc \in {"save_images", "save_audio", "concat"} => Len(notified) = NumScenes

\* C5: the k-th notification of a stage carries completed_count = k and
\* total_count = N, and the task's progress after it is
\* stage_start + stage_span * k / N.
C5_NotificationCarriesCompletedCount ==
    pc \in {"images", "audio", "video"} =>
        /\ \A k \in 1..Len(notified) :
              notified[k].current = k /\ notified[k].total = NumScenes
        /\ Len(notified) > 0 =>
              Task.progress = StageProgress(StageStart(pc), StageSpan(pc),
                                            (Len(notified) * Unit) \div NumScenes)

\* C6: the progress values written to the task record during one run never
\* decrease.
C6_ProgressMonotonic ==
    [][task_id # 0 => task_repo'[task_id].progress >= Task.progress]_vars

\* C7: no write to the task record sets a stage that is earlier in the
\* order Analyzing, Images, Audio, Video, Composing, Done than the stage
\* already recorded.
C7_StageOnlyAdvances ==
    [][task_id # 0 =>
          StageRank(task_repo'[task_id].stage) >= StageRank(Task.stage)]_vars

C9_StageProgressRange ==
    (task_id # 0 /\ raised = None) =>
        /\ Task.stage = "images" =>
              Task.progress >= 1 * Unit /\ Task.progress <= 4 * Unit
        /\ Task.stage = "audio" =>
              Task.progress >= 4 * Unit /\ Task.progress <= 6 * Unit
        /\ Task.stage = "video" =>
              Task.progress >= 6 * Unit /\ Task.progress <= 9 * Unit

C11_EmptyStoryboardFails ==
    ((storyboard # None /\ NumScenes = 0)
        \/ raised = <<"No scenes returned from script analysis">>) =>
        /\ pc \in {"check", "except", "raised"}
        /\ pc # "check" =>
              raised \in {<<"No scenes in storyboard">>,
                          <<"No scenes returned from script analysis">>}
        /\ job = <<>> /\ settled = <<>> /\ notified = <<>>
        /\ video_segments = <<>>
        /\ output_path = None
        /\ project_repo.video_output_path = None

C11_Witness ==
    /\ pc = "raised"
    /\ storyboard # None /\ NumScenes = 0
    /\ raised = <<"No scenes in storyboard">>
    /\ Task.error = raised
    /\ project_repo.status = "failed"

\* the errors of analysis, of concatenation and subtitle burn-in, and of the
\* infrastructure (persistence, the caller's progress sink)
StageLevelErrors ==
    {"analysis failed", "No scenes returned from script analysis",
     "No scenes in storyboard", "database error", "Failed to concat videos",
     "Failed to render subtitles", "progress callback failed"}

\* C12 (as claimed): a run fails only with an error of analysis, of
\* concatenation or subtitle burn-in, or of the infrastructure, whatever the
\* pattern of per-scene job failures.
C12_FailsOnlyOnStageErrors ==
    raised # None => raised[1] \in StageLevelErrors

\* C12 (amended): besides the stage-level errors a run fails with "No video
\* segments were generated", and with that error only when no segment job at
\* all returned a path; whenever at least one segment job returned a path
\* the run goes on to concatenation, and per-scene failures alone never
\* raise.
C12_FailsOnlyOnStageErrorsOrNoSegment ==
    /\ raised # None =>
          raised[1] \in StageLevelErrors \cup {"No video segments were generated"}
    /\ raised = <<"No video segments were generated">> =>
          \A i \in DOMAIN ret : ret[i] = None
    /\ pc \in {"images", "audio", "video", "save_images", "save_audio"} =>
          raised = None
    /\ pc \in {"concat", "subtitles", "final_callback", "finish", "set_output",
               "returned"} => video_segments # <<>>

C12_Witness ==
    /\ pc = "returned"
    /\ output_path # None
    /\ \E i \in DOMAIN job : job[i] \in {"failed", "skipped"}
    /\ \E i \in DOMAIN job : Scenes[i].audio_path = None

\* C13: after generate_scene_audios, a scene whose synthesis returned a
\* measured duration a > 0 against the planned duration p has duration a if
\* |a - p| > 0.1 * p and p otherwise (|a - p| = 0.1 * p keeps p); a scene
\* whose synthesis failed or measured nothing keeps p.
C13_Reconciled ==
    measured # <<>> =>
        \A i \in DOMAIN measured :
            LET p == input_scenes[i].duration IN
            IF measured[i] # None /\ measured[i][1] > 0
            THEN Scenes[i].duration =
                    (IF 10 * Abs(measured[i][1] - p) > p THEN measured[i][1] ELSE p)
            ELSE Scenes[i].duration = p

C13_Witness ==
    /\ measured # <<>>
    /\ \E i \in DOMAIN measured :
          measured[i] # None /\ 10 * Abs(measured[i][1] - input_scenes[i].duration)
                                   = input_scenes[i].duration
                             /\ Scenes[i].duration = input_scenes[i].duration
    /\ \E i \in DOMAIN measured :
          measured[i] # None /\ Scenes[i].duration = measured[i][1]
                             /\ Scenes[i].duration # input_scenes[i].duration

\* C14: after generate_scene_audios, regenerate_scene_audio and
\* sync_duration_to_audio the storyboard that owns the scenes has
\* total_duration equal to the sum of its scenes' durations.
C14_TotalDurationIsSum ==
    storyboard[1].total_duration = SumDurations(Scenes)

\* C14, second half: every storyboard execute persists has total_duration
\* equal to the sum of its scenes' durations.
C14_PersistedTotalDurationIsSum ==
    project_repo.storyboard_data # None =>
        project_repo.storyboard_data[1].total_duration
            = SumDurations(project_repo.storyboard_data[1].scenes)

\* the positions of the scenes with a non-empty narration, in scene order
NarratedScenes ==
    SelectSeq([i \in 1..NumScenes |-> i], LAMBDA i : Scenes[i].narration # <<>>)

Cues == cue_track[1].cues

\* a formatted cue time read back, in milliseconds
CueMillis(time) ==
    ((time.hours * 60 + time.minutes) * 60 + time.secs) * 1000
      + (IF cue_track[1].format = "srt" THEN time.millis ELSE 10 * time.centis)

\* C15: in the SRT and in the ASS track the cue of scene i starts at the sum
\* of the durations of all scenes before i, scenes with empty narration
\* included, and ends at that start plus the duration of scene i.
C15_CueStartIsPrefixSum ==
    cue_track # None =>
        \A k \in 1..Len(Cues) :
            k <= Len(NarratedScenes) =>
                LET i == NarratedScenes[k]
                    start == 100 * SumDurations(SubSeq(Scenes, 1, i - 1))
                IN  /\ CueMillis(Cues[k].start) = start
                    /\ CueMillis(Cues[k].end) = start + 100 * Scenes[i].duration

\* C16: the cue track has exactly one cue for each scene with non-empty
\* narration and none for the others, the cues are in scene order (the k-th
\* cue carries the text, and in SRT the position, of the k-th narrated
\* scene), and no cue ends after the next one starts.
C16_OneCuePerNarratedScene ==
    cue_track # None =>
        /\ Len(Cues) = Len(NarratedScenes)
        /\ \A k \in 1..Len(Cues) :
              k <= Len(NarratedScenes) =>
                 /\ Cues[k].text = clean_text_for_subtitle(Scenes[NarratedScenes[k]].narration)
                 /\ cue_track[1].format = "srt" => Cues[k].index = NarratedScenes[k]
                 /\ CueMillis(Cues[k].start) <= CueMillis(Cues[k].end)
        /\ \A k \in 1..(Len(Cues) - 1) :
              CueMillis(Cues[k].end) <= CueMillis(Cues[k + 1].start)

C16_Witness ==
    /\ cue_track # None
    /\ NumScenes = 3
    /\ Scenes[2].narration = <<>>
    /\ Len(Cues) = 2
    /\ CueMillis(Cues[1].end) = CueMillis(Cues[2].start)
    /\ CueMillis(Cues[2].start) > 0

\* C17: a scene that has no image after the Images stage is skipped by the
\* later stages of the run: the Audio stage starts no synthesis job for it
\* and leaves its audio_path and duration alone, the Video stage renders no
\* segment for it and leaves its video_path unset.
C17_ImagelessSceneSkipped ==
    /\ pc \in {"audio", "save_audio"} =>
          \A i \in DOMAIN job :
              input_scenes[i].image_path = None =>
                  /\ job[i] \in {"pending", "skipped"}
                  /\ Scenes[i].audio_path = None
                  /\ Scenes[i].duration = input_scenes[i].duration
    /\ pc \in {"video", "concat"} =>
          \A i \in DOMAIN job :
              input_scenes[i].image_path = None =>
                  /\ job[i] = "skipped"
                  /\ ret[i] = None
                  /\ Scenes[i].video_path = None

\* C18: the list of segments handed to concatenation holds exactly the
\* segments of the scenes whose render succeeded (whose video_path was set),
\* each once and in the order of the scenes, whatever the order in which
\* the renders settled.
C18_SegmentsAreRenderedScenesInOrder ==
    pc = "concat" =>
        video_segments = SelectSome([i \in 1..NumScenes |-> Scenes[i].video_path])

\* how often event e occurs in what websocket w received
Deliveries(w, e) == Cardinality({k \in 1..Len(received[w]) : received[w][k] = e})

\* C19: a completed send_progress(p, e) has delivered e exactly once to
\* every live subscriber that was registered for p from the start of the
\* send to its end, whatever connected or disconnected meanwhile; no
\* websocket receives an event of another project, an event twice, or an
\* event whose send was over before it connected.
C19_DeliveredOnceToEverySubscriber ==
    /\ \A e \in Events :
          SendDone(e) => \A w \in sending[e].throughout : Deliveries(w, e) = 1
    /\ \A w \in WebSockets :
          \A k \in 1..Len(received[w]) :
              /\ sockets[w].project_id = sending[received[w][k]].project_id
              /\ received[w][k] \notin sockets[w].missed
              /\ Deliveries(w, received[w][k]) = 1

\* C20: a subscriber whose write failed during send_progress is no longer
\* in the project's subscriber list once that write attempt is over.
C20_FailedSubscriberPruned ==
    \A f \in write_failed :
        \A k \in 1..Len(active_connections[sockets[f[2]].project_id]) :
            active_connections[sockets[f[2]].project_id][k] # f[2]

\* C21: every event pushed to the subscribers during a run names the task
\* of the run and carries the stage, the overall progress and the current
\* scene the orchestrator has just recorded on that task.
C21_EventCarriesRecordedProgress ==
    [][pushed' # pushed =>
          LET event == pushed'[Len(pushed')] IN
              /\ event.task_id = task_id'
              /\ event.stage = task_repo'[task_id'].stage
              /\ event.progress = task_repo'[task_id'].progress
              /\ event.current_scene = task_repo'[task_id'].current_scene
      ]_vars

\* C22: a generation request creates exactly one task record; the record
\* whose id generate_video returned shows stage done with progress 1.0 once
\* the run has succeeded, and a non-null error once the run has failed.
C22_ReturnedTaskFollowsRun ==
    pc \in {"returned", "raised"} =>
        /\ Len(task_repo) = 1
        /\ pc = "returned" =>
              /\ task_repo[request_task_id].stage = "done"
              /\ task_repo[request_task_id].progress = 10 * Unit
        /\ pc = "raised" => task_repo[request_task_id].error # None

\* C23: a second generation request for a project is neither rejected nor
\* held back while another run of the project is in its stages: whenever
\* some run is in its stages and the project's storyboard can be loaded, a
\* run that has not started can start.
C23_SecondRunNotRejected ==
    \A r \in DOMAIN runs :
        (/\ runs[r].pc = "idle"
         /\ \E q \in DOMAIN runs : InStages(runs[q])
         /\ row_to_storyboard(project_repo.storyboard_data) # None)
        => ENABLED StartRun(r)

\* two runs are in their stages at once and an update is lost: run a saved
\* the 6.0 s it adopted for the first scene in its Audio stage, and the row
\* now holds the planned 5.0 s again, written by run b from its own copy
C23_Witness ==
    \E a, b \in DOMAIN runs :
        /\ a # b
        /\ runs[a].pc = "video"
        /\ InStages(runs[b])
        /\ runs[a].storyboard[1].scenes[1].duration = 60
        /\ project_repo.storyboard_data # None
        /\ project_repo.storyboard_data[1].scenes[1].duration = 50
        /\ project_repo.storyboard_data[1].scenes[1].audio_path = None

\* C24: the Audio stage synthesises with the GPT-SoVITS client when the
\* request asked for use_sovits, and with the Edge client when it did not.
C24_EngineFollowsUseSovits ==
    tts_client # None =>
        tts_client[1] = IF request[1].use_sovits THEN "sovits" ELSE "edge"

\* what identifies a storyboard: its id and, scene by scene in order, the
\* scene's id, order and narration (None for no storyboard)
StoryboardIdentity(data) ==
    IF data = None THEN None
    ELSE <<[id |-> data[1].id,
            scenes |-> [i \in 1..Len(data[1].scenes) |->
                           [id |-> data[1].scenes[i].id,
                            order |-> data[1].scenes[i].order,
                            narration |-> data[1].scenes[i].narration]]]>>

\* C25: no step of a run on a project that has a storyboard replaces the
\* storyboard or changes its identity, in the project row or in the run's
\* own copy: the storyboard id, the number and order of the scenes and each
\* scene's id, order and narration stay what they were.
C25_StoryboardIdentityKept ==
    [][/\ StoryboardIdentity(project_repo'.storyboard_data)
              = StoryboardIdentity(project_repo.storyboard_data)
       /\ \A r \in DOMAIN runs :
              runs[r].storyboard # None =>
                  StoryboardIdentity(runs'[r].storyboard)
                      = StoryboardIdentity(runs[r].storyboard)
      ]_vars

\* C26: the stages of a run are separated by barriers.  The Images stage is
\* left, and the audio jobs are created, only when every image job has
\* settled; the Video stage is entered, and the segment jobs are created,
\* only when every audio job has settled and total_duration is the sum of
\* the scene durations; concatenation is entered only when every segment
\* job has settled.
C26_StageBarriers ==
    [][/\ (pc = "images" /\ pc' # "images" /\ pc' # "except") =>
              \A i \in DOMAIN job : job[i] \in {"ok", "failed", "skipped"}
       /\ (pc # "audio" /\ pc' = "audio") =>
              /\ pc = "save_images"
              /\ \A i \in DOMAIN job : job[i] \in {"ok", "failed", "skipped"}
              /\ \A i \in DOMAIN job' : job'[i] = "pending"
       /\ (pc = "audio" /\ pc' # "audio" /\ pc' # "except") =>
              \A i \in DOMAIN job : job[i] \in {"ok", "failed", "skipped"}
       /\ (pc # "video" /\ pc' = "video") =>
              /\ pc = "save_audio"
              /\ \A i \in DOMAIN job : job[i] \in {"ok", "failed", "skipped"}
              /\ storyboard'[1].total_duration = SumDurations(storyboard'[1].scenes)
       /\ (pc # "concat" /\ pc' = "concat") =>
              /\ pc = "video"
              /\ \A i \in DOMAIN job : job[i] \in {"ok", "failed", "skipped"}
      ]_vars

\* a run of two scenes reached concatenation with an audio duration adopted
\* and one segment job failed
C26_Witness ==
    /\ pc = "concat"
    /\ NumScenes = 2
    /\ \E i \in 1..2 : job[i] = "failed"
    /\ \E i \in 1..2 : Scenes[i].duration = 60

\* C27: for the zoom-out effect the zoom of the first frame is the cap 1.5,
\* the zoom of every following frame is the zoom of the frame before it less
\* the step 0.0015, but never below 1.0: the zoom never increases and stays
\* at 1.0 once it has reached 1.0.
C27_ZoomOutStepsDownFromCap ==
    [][(zoompan # None /\ zoompan' # None /\ zoompan'[1].effect = "zoom_out") =>
          IF zoompan'[1].frame = 1
          THEN zoompan'[1].zoom = DEFAULT_MAX_ZOOM
          ELSE /\ zoompan'[1].zoom = Max(zoompan[1].zoom - DEFAULT_ZOOM_SPEED, ZoomOne)
               /\ zoompan'[1].zoom <= zoompan[1].zoom
      ]_vars

\* the offset at which the segment of scene i begins in the concatenated
\* video: the durations of the segments concatenated before it, each as long
\* as the duration its render was called with
SegmentOffset(i) ==
    SumDurations(SelectSeq(SubSeq(Scenes, 1, i - 1),
                           LAMBDA s : \E k \in 1..Len(video_segments) :
                                          video_segments[k][2] = s.order))

\* C28: in the subtitled video the cue of every scene whose segment was
\* concatenated starts at the offset at which that segment begins, whatever
\* scenes before it were skipped for lack of an image or failed to render.
C28_CueStartsAtSegmentOffset ==
    (pc \in {"final_callback", "finish", "set_output", "returned"} /\ cue_track # None) =>
        \A k \in 1..Len(Cues) :
            LET i == NarratedScenes[k] IN
                (\E n \in 1..Len(video_segments) : video_segments[n][2] = Scenes[i].order) =>
                    CueMillis(Cues[k].start) = 100 * SegmentOffset(i)

\* C29: after execute returned successfully the persisted project has status
\* completed and the returned path as video_output_path, and its persisted
\* storyboard records, for every scene whose segment was rendered, the scene
\* as the run left it: video_path, image_path, audio_path and duration.
C29_RenderedScenesPersisted ==
    pc = "returned" =>
        /\ project_repo.status = "completed"
        /\ project_repo.video_output_path = output_path
        /\ project_repo.storyboard_data # None
        /\ \A i \in 1..NumScenes :
              Scenes[i].video_path # None =>
                  project_repo.storyboard_data[1].scenes[i] = Scenes[i]

\* C30: every storyboard the pipeline has persisted can be loaded back:
\* reading the project row returns the storyboard that was written, with
\* the same scenes, artifacts and durations.
C30_PersistedStoryboardLoads ==
    project_repo.storyboard_data # None =>
        row_to_storyboard(project_repo.storyboard_data) = project_repo.storyboard_data

====
